---- MODULE Spec2Model ----
(***************************************************************************)
(* Model of scripts/import-performance.py: the one-shot import of a wide   *)
(* spreadsheet of player metrics into the "performance" table.             *)
(*                                                                         *)
(* Representation.  A Python str is a sequence of one-character strings.   *)
(* None / NaN in a place that otherwise holds a str is the sentinel        *)
(* NoneStr; None in a place that holds a player id is NoId; a metric key   *)
(* that is absent from a per-date dict (metrics.get(k) is None) is         *)
(* NoValue.  Numbers read from metric cells are kept in thousandths        *)
(* (1004 is 1.004), so that int() and round(x, 2) are real conversions.    *)
(***************************************************************************)
EXTENDS Integers, Sequences, FiniteSets, TLC

VARIABLES
    pc,                   \* position of the script
    SUPABASE_URL,         \* line 12
    SUPABASE_KEY,         \* line 13
    exit_status,          \* status passed to exit(), NoExit while running
    excel_reads,          \* number of pd.read_excel calls made
    gets,                 \* number of GET requests issued (supabase_get)
    posts,                \* the POST requests issued: <<[batch, status]>>
    players_db,           \* rows of the remote players table
    col,                  \* loop variable of the header loop (line 68)
    dates,                \* line 67: <<[col, date]>>
    players,              \* line 79: dict as <<[name, id]>> in insertion order
    performance_records,  \* line 83
    current_player,       \* line 84
    current_player_id,    \* line 85
    row_data,             \* line 86: dict as <<[date, metrics]>>
    skipped_players,      \* line 88
    matched_players,      \* line 89
    idx,                  \* loop variable of the row loop (line 91)
    i,                    \* loop variable of the batch loop (line 183)
    inserted,             \* line 181
    blocks,               \* history: the player blocks read from the sheet
    rec_block,            \* history: block being flushed when record k was appended
    arg,                  \* argument of the pure function under test
    res,                  \* its result
    res2                  \* result of applying it to its own result

vars == <<pc, SUPABASE_URL, SUPABASE_KEY, exit_status, excel_reads, gets, posts,
          players_db, col, dates, players, performance_records, current_player,
          current_player_id, row_data, skipped_players, matched_players, idx, i,
          inserted, blocks, rec_block, arg, res, res2>>

mainVars == <<SUPABASE_URL, SUPABASE_KEY, exit_status, excel_reads, gets, posts,
              players_db, col, dates, players, performance_records, current_player,
              current_player_id, row_data, skipped_players, matched_players, idx, i,
              inserted, blocks, rec_block>>

pureVars == <<arg, res, res2>>

-----------------------------------------------------------------------------
(* Bounds *)

MaxNameLen == 4      \* longest str given to normalize_name in SpecName
MaxDateLen == 8      \* longest str given to parse_date in SpecDate
MaxCols    == 2      \* spreadsheet columns after column 3
MaxRows    == 2      \* spreadsheet rows after the header row
MaxCells   == 4      \* spreadsheet cells after column 3, header row included
MaxRecords == 450    \* longest record list given to the batch loop in SpecBatch

-----------------------------------------------------------------------------
(* Python values *)

NoneStr == <<"<None>">>
NoId    == 0
NoValue == -1
NoExit  == -1

Min(S) == CHOOSE x \in S : \A y \in S : x <= y

StringsUpTo(alphabet, n) == UNION {[1..k -> alphabet] : k \in 0..n}

IsSpace(c) == c = " "

\* str.lower() on one character
LowerChar(c) ==
    CASE c = "A" -> "a"
      [] c = "B" -> "b"
      [] c = "R" -> "r"
      [] c = "S" -> "s"
      [] OTHER   -> c

IsUpper(c) == LowerChar(c) # c

\* str.lower()
Lower(s) == [k \in 1..Len(s) |-> LowerChar(s[k])]

\* str.strip(): drops every leading and trailing whitespace character
Strip(s) ==
    LET keep == {k \in 1..Len(s) : ~IsSpace(s[k])}
    IN  IF keep = {} THEN <<>>
        ELSE SubSeq(s, Min(keep), CHOOSE k \in keep : \A m \in keep : m <= k)

\* sep.join-free str.split(sep) for a one-character sep: always Len >= 1
RECURSIVE SplitOn(_, _)
SplitOn(s, sep) ==
    LET hits == {k \in 1..Len(s) : s[k] = sep}
    IN  IF hits = {} THEN <<s>>
        ELSE <<SubSeq(s, 1, Min(hits) - 1)>>
             \o SplitOn(SubSeq(s, Min(hits) + 1, Len(s)), sep)

\* set(str.split()): the whitespace-delimited tokens, empty tokens dropped
Tokens(s) ==
    LET parts == SplitOn(s, " ")
    IN  {parts[k] : k \in {m \in 1..Len(parts) : parts[m] # <<>>}}

\* a in b, for str
IsSubstr(a, b) ==
    \E k \in 0..(Len(b) - Len(a)) : SubSeq(b, k + 1, k + Len(a)) = a

DigitChars == <<"0", "1", "2", "3", "4", "5", "6", "7", "8", "9">>

IsDigit(c) == \E d \in 1..10 : DigitChars[d] = c

DigitVal(c) == (CHOOSE d \in 1..10 : DigitChars[d] = c) - 1

\* whether int(s) returns rather than raising ValueError.  Exact for the
\* strings of the model, which hold no sign, underscore or whitespace.
IntParses(s) == Len(s) > 0 /\ \A k \in 1..Len(s) : IsDigit(s[k])

RECURSIVE IntOf(_)
IntOf(s) ==
    IF Len(s) = 0 THEN 0
    ELSE 10 * IntOf(SubSeq(s, 1, Len(s) - 1)) + DigitVal(s[Len(s)])

RECURSIVE Decimal(_)
Decimal(n) ==
    IF n < 10 THEN <<DigitChars[n + 1]>>
    ELSE Decimal(n \div 10) \o <<DigitChars[(n % 10) + 1]>>

\* f"{n:02d}" for n >= 0
Fmt02(n) == IF n < 10 THEN <<"0">> \o Decimal(n) ELSE Decimal(n)

-----------------------------------------------------------------------------
(* normalize_name, lines 45-48 *)

\* a strip that removes at most one character at each end
StripOne(s) ==
    LET a == IF Len(s) > 0 /\ IsSpace(s[1]) THEN SubSeq(s, 2, Len(s)) ELSE s
    IN  IF Len(a) > 0 /\ IsSpace(a[Len(a)]) THEN SubSeq(a, 1, Len(a) - 1) ELSE a

normalize_name_one(name) ==
    IF name = NoneStr THEN NoneStr ELSE StripOne(Lower(name))

normalize_name(name) ==
    IF name = NoneStr THEN NoneStr ELSE Strip(Lower(name))

-----------------------------------------------------------------------------
(* parse_date, lines 50-60 *)

\* str(date_str): a NaN cell prints as "nan"
StrOfCell(c) == IF c = NoneStr THEN <<"n", "a", "n">> ELSE c

parse_date(date_str) ==
    LET parts == SplitOn(StrOfCell(date_str), "/")
    IN  IF Len(parts) = 3
        THEN LET month == parts[1]
                 day   == parts[2]
                 year  == IF Len(parts[3]) = 2 THEN <<"2", "0">> \o parts[3]
                          ELSE parts[3]
             IN  IF IntParses(month) /\ IntParses(day)
                 THEN year \o <<"-">> \o Fmt02(IntOf(month)) \o <<"-">> \o Fmt02(IntOf(day))
                 ELSE NoneStr
        ELSE NoneStr

-----------------------------------------------------------------------------
(* Inputs of a run *)

\* values of an environment variable: unset, empty, set
EnvValues == {NoneStr, <<>>, <<"k">>}

\* cells of the header row: M/D/YY, M/D/YYYY of the same day, another day,
\* a text that is no date, an empty cell
HeaderCells ==
    { <<"1", "/", "2", "/", "2", "4">>,
      <<"0", "1", "/", "0", "2", "/", "2", "0", "2", "4">>,
      <<"1", "/", "3", "/", "2", "4">>,
      <<"x">>,
      NoneStr }

\* cells of column 0
NameCells ==
    { NoneStr,
      <<" ">>,
      <<"A", " ", "b">>,
      <<" ", "a", " ", "c">>,
      <<"a", " ", "c", " ", "d", " ", "e">> }

\* cells of column 3
MetricCells ==
    { NoneStr,
      <<"R", "a", "w", " ", "S", "c", "o", "r", "e">>,
      <<"r", "a", "n", "k", "i", "n", "g", " ">>,
      <<"r", "e", "w", "a", "r", "d">>,
      <<"t", "o", "t", "a", "l">> }

RawScoreStr == <<"r", "a", "w", " ", "s", "c", "o", "r", "e">>
RankingStr  == <<"r", "a", "n", "k", "i", "n", "g">>
RewardStr   == <<"r", "e", "w", "a", "r", "d">>

\* cells of a date column: empty, a text that float() rejects, and the
\* numbers 0, 0.004 and 1.004 in thousandths (none is a rounding tie)
CellNaN  == [t |-> "nan"]
CellText == [t |-> "text"]
Num(n)   == [t |-> "num", n |-> n]
ValueCells == {CellNaN, CellText, Num(0), Num(4), Num(1004)}

\* contents of the players table
Registries ==
    { <<>>,
      << [id |-> 1, display_name |-> <<"b", " ", "c">>],
         [id |-> 2, display_name |-> <<"a", " ", "b">>],
         [id |-> 3, display_name |-> <<"B", " ", "c", " ">>] >>,
      << [id |-> 1, display_name |-> <<>>],
         [id |-> 2, display_name |-> NoneStr],
         [id |-> 3, display_name |-> <<"c", " ", "d">>] >> }

\* HTTP statuses an upsert call returns (resp.status or e.code)
Statuses == {200, 201, 409}

-----------------------------------------------------------------------------
(* Module-level configuration check, lines 12-18 *)

\* not v, for a str or None
Falsy(v) == v = NoneStr \/ v = <<>>

ConfigMissingAnd(url, key) == Falsy(url) /\ Falsy(key)

ConfigMissing(url, key) == Falsy(url) \/ Falsy(key)

ConfigCheck ==
    /\ pc = "config"
    /\ IF ConfigMissing(SUPABASE_URL, SUPABASE_KEY)
       THEN pc' = "aborted" /\ exit_status' = 1
       ELSE pc' = "load" /\ UNCHANGED exit_status
    /\ UNCHANGED <<SUPABASE_URL, SUPABASE_KEY, excel_reads, gets, posts,
                   players_db, col, dates, players, performance_records,
                   current_player, current_player_id, row_data, skipped_players,
                   matched_players, idx, i, inserted, blocks, rec_block>>
    /\ UNCHANGED pureVars

-----------------------------------------------------------------------------
(* Header row, lines 63-74 *)

LoadExcel ==
    /\ pc = "load"
    /\ excel_reads' = excel_reads + 1
    /\ col' = 4
    /\ dates' = <<>>
    /\ pc' = "header"
    /\ UNCHANGED <<SUPABASE_URL, SUPABASE_KEY, exit_status, gets, posts, players_db,
                   players, performance_records, current_player, current_player_id,
                   row_data, skipped_players, matched_players, idx, i, inserted,
                   blocks, rec_block>>
    /\ UNCHANGED pureVars

\* one iteration of the loop of line 68
HeaderCol ==
    /\ pc = "header"
    /\ col < 4 + MaxCols
    /\ \E date_val \in HeaderCells :
          LET parsed == parse_date(date_val)
          IN  dates' = IF ~Falsy(parsed)
                       THEN Append(dates, [col |-> col, date |-> parsed])
                       ELSE dates
    /\ col' = col + 1
    /\ UNCHANGED <<pc, SUPABASE_URL, SUPABASE_KEY, exit_status, excel_reads, gets,
                   posts, players_db, players, performance_records, current_player,
                   current_player_id, row_data, skipped_players, matched_players,
                   idx, i, inserted, blocks, rec_block>>
    /\ UNCHANGED pureVars

-----------------------------------------------------------------------------
(* Player registry, lines 76-89 *)

RECURSIVE DictIndex(_, _, _)
\* position of key in the dict d, 0 if absent
DictIndex(d, key, k) ==
    IF k > Len(d) THEN 0
    ELSE IF d[k].name = key THEN k ELSE DictIndex(d, key, k + 1)

\* d[key] = value: a new key goes last, an old key keeps its position
DictSet(d, key, value) ==
    LET k == DictIndex(d, key, 1)
    IN  IF k = 0 THEN Append(d, [name |-> key, id |-> value])
        ELSE [d EXCEPT ![k].id = value]

RECURSIVE BuildPlayers(_, _)
\* line 79, over the first n rows of players_data
BuildPlayers(players_data, n) ==
    IF n = 0 THEN <<>>
    ELSE DictSet(BuildPlayers(players_data, n - 1),
                 normalize_name(players_data[n].display_name),
                 players_data[n].id)

\* players.get(key)
DictGet(d, key) ==
    LET k == DictIndex(d, key, 1) IN IF k = 0 THEN NoId ELSE d[k].id

FetchPlayers ==
    /\ pc = "header"
    /\ gets' = gets + 1
    /\ players' = BuildPlayers(players_db, Len(players_db))
    /\ performance_records' = <<>>
    /\ current_player' = NoneStr
    /\ current_player_id' = NoId
    /\ row_data' = <<>>
    /\ skipped_players' = {}
    /\ matched_players' = {}
    /\ idx' = 1
    /\ pc' = "rows"
    /\ UNCHANGED <<SUPABASE_URL, SUPABASE_KEY, exit_status, excel_reads, posts,
                   players_db, col, dates, i, inserted, blocks, rec_block>>
    /\ UNCHANGED pureVars

-----------------------------------------------------------------------------
(* Saving a block, lines 97-106 and 153-162 *)

\* bool(v) for a stored metric or the None of a missing key
Truthy(v) == v # NoValue /\ v # 0

EmptyMetrics == [raw_score |-> NoValue, ranking |-> NoValue, reward |-> NoValue]

\* the condition of lines 99 and 155
HasMetricRawOnly(metrics) == Truthy(metrics.raw_score)

HasMetric(metrics) ==
    Truthy(metrics.raw_score) \/ Truthy(metrics.ranking) \/ Truthy(metrics.reward)

Record(player_id, date, metrics) ==
    [player_id  |-> player_id,
     match_date |-> date,
     raw_score  |-> metrics.raw_score,
     ranking    |-> metrics.ranking,
     reward     |-> metrics.reward]

RECURSIVE BlockRecords(_, _, _)
\* the records the loop over row_data.items() appends, from item k on
BlockRecords(player_id, rd, k) ==
    IF k > Len(rd) THEN <<>>
    ELSE (IF HasMetric(rd[k].metrics)
          THEN <<Record(player_id, rd[k].date, rd[k].metrics)>>
          ELSE <<>>)
         \o BlockRecords(player_id, rd, k + 1)

\* what the guarded loop appends to performance_records
SavedRecords(player_id, rd) ==
    IF player_id # NoId /\ Len(rd) > 0 THEN BlockRecords(player_id, rd, 1) ELSE <<>>

-----------------------------------------------------------------------------
(* Player matching, lines 108-127 *)

RECURSIVE FuzzyScanNoCap(_, _, _)
FuzzyScanNoCap(d, normalized, k) ==
    IF k > Len(d) THEN NoId
    ELSE LET db_name == d[k].name
         IN  IF /\ ~Falsy(db_name)
                /\ ~Falsy(normalized)
                /\ \/ IsSubstr(normalized, db_name)
                   \/ IsSubstr(db_name, normalized)
                   \/ Cardinality(Tokens(normalized) \cap Tokens(db_name)) >= 1
             THEN d[k].id
             ELSE FuzzyScanNoCap(d, normalized, k + 1)

RECURSIVE FuzzyScan(_, _, _)
\* the loop of lines 113-122 from item k on: the id at the break, NoId if none
FuzzyScan(d, normalized, k) ==
    IF k > Len(d) THEN NoId
    ELSE LET db_name == d[k].name
         IN  IF /\ ~Falsy(db_name)
                /\ ~Falsy(normalized)
                /\ \/ IsSubstr(normalized, db_name)
                   \/ IsSubstr(db_name, normalized)
                   \/ /\ Cardinality(Tokens(normalized) \cap Tokens(db_name)) >= 1
                      /\ Cardinality(Tokens(normalized)) <= 3
             THEN d[k].id
             ELSE FuzzyScan(d, normalized, k + 1)

ResolvePlayerNoCap(d, normalized) ==
    IF DictGet(d, normalized) # NoId THEN DictGet(d, normalized)
    ELSE FuzzyScanNoCap(d, normalized, 1)

\* lines 110-122: current_player_id for a normalized sheet name
ResolvePlayer(d, normalized) ==
    IF DictGet(d, normalized) # NoId THEN DictGet(d, normalized)
    ELSE FuzzyScan(d, normalized, 1)

RECURSIVE FreshRowData(_, _)
\* line 129 over the first n date columns: one empty dict per distinct date
FreshRowData(ds, n) ==
    IF n = 0 THEN <<>>
    ELSE LET d == FreshRowData(ds, n - 1)
         IN  IF \E k \in 1..Len(d) : d[k].date = ds[n].date THEN d
             ELSE Append(d, [date |-> ds[n].date, metrics |-> EmptyMetrics])

\* whether line 95 takes the row as the start of a block
StartsBlock(display_name) ==
    display_name # NoneStr /\ Strip(display_name) # <<>>

\* lines 97-129 with the id of an unmatched name left as it was
NewBlockKeepId(st, d, ds, display_name) ==
    LET name == Strip(display_name)
        id   == ResolvePlayer(d, normalize_name(name))
    IN  [records |-> st.records \o SavedRecords(st.id, st.rd),
         player  |-> name,
         id      |-> IF id # NoId THEN id ELSE st.id,
         rd      |-> IF id # NoId THEN FreshRowData(ds, Len(ds)) ELSE st.rd,
         matched |-> IF id # NoId THEN st.matched \cup {name} ELSE st.matched,
         skipped |-> IF id # NoId THEN st.skipped ELSE st.skipped \cup {name}]

\* lines 97-129: st holds performance_records, current_player,
\* current_player_id, row_data, matched_players and skipped_players
NewBlock(st, d, ds, display_name) ==
    LET name == Strip(display_name)
        id   == ResolvePlayer(d, normalize_name(name))
    IN  [records |-> st.records \o SavedRecords(st.id, st.rd),
         player  |-> name,
         id      |-> id,
         rd      |-> FreshRowData(ds, Len(ds)),
         matched |-> IF id # NoId THEN st.matched \cup {name} ELSE st.matched,
         skipped |-> IF id # NoId THEN st.skipped ELSE st.skipped \cup {name}]

-----------------------------------------------------------------------------
(* Metric rows, lines 131-150 *)

\* int(val) for val >= 0
IntTrunc(v) == (v \div 1000) * 1000

\* round(val, 2) for val >= 0 that is no tie
Round2(v) == ((v + 5) \div 10) * 10

\* line 144
RawScoreOf(v) == IF v = IntTrunc(v) THEN IntTrunc(v) ELSE Round2(v)

\* row_data[date][key] = value
SetMetric(rd, date, key, value) ==
    [k \in 1..Len(rd) |->
        IF rd[k].date = date
        THEN [rd[k] EXCEPT !.metrics = [@ EXCEPT ![key] = value]]
        ELSE rd[k]]

\* lines 139-150 for one date column
StoreCell(rd, date, metric_type, val) ==
    IF val.t # "num" THEN rd
    ELSE IF metric_type = RawScoreStr THEN SetMetric(rd, date, "raw_score", RawScoreOf(val.n))
    ELSE IF metric_type = RankingStr THEN SetMetric(rd, date, "ranking", IntTrunc(val.n))
    ELSE IF metric_type = RewardStr THEN SetMetric(rd, date, "reward", Round2(val.n))
    ELSE rd

RECURSIVE StoreCells(_, _, _, _, _)
\* the loop of line 138 over the first n date columns
StoreCells(rd, ds, metric_type, cells, n) ==
    IF n = 0 THEN rd
    ELSE StoreCell(StoreCells(rd, ds, metric_type, cells, n - 1),
                   ds[n].date, metric_type, cells[n])

\* lines 131-150: row_data after the row
MetricRow(rd, player_id, ds, metric_cell, cells) ==
    IF metric_cell = NoneStr THEN rd
    ELSE IF player_id # NoId
         THEN StoreCells(rd, ds, Lower(Strip(metric_cell)), cells, Len(ds))
         ELSE rd

Repeat(x, n) == [k \in 1..n |-> x]

\* whether the row is a metric row of a known type with a number in a date column
HasNumber(metric_cell, cells) ==
    /\ metric_cell # NoneStr
    /\ Lower(Strip(metric_cell)) \in {RawScoreStr, RankingStr, RewardStr}
    /\ \E k \in DOMAIN cells : cells[k].t = "num"

\* history of the block the row belongs to: the name and the id the name
\* resolves to, the values its own metric rows store per date, and whether
\* any of its rows holds a number
BlockHistory(bs, d, ds, display_name, metric_cell, cells) ==
    LET new  == StartsBlock(display_name)
        last == bs[Len(bs)]
        name == IF new THEN Strip(display_name) ELSE last.name
        id   == IF new THEN ResolvePlayer(d, normalize_name(name)) ELSE last.id
        own  == IF new THEN FreshRowData(ds, Len(ds)) ELSE last.stored
    IN  [name    |-> name,
         id      |-> id,
         stored  |-> MetricRow(own, id, ds, metric_cell, cells),
         numeric |-> (~new /\ last.numeric) \/ HasNumber(metric_cell, cells)]

\* one iteration of the loop of line 91
ProcessRow ==
    /\ pc = "rows"
    /\ idx <= MaxRows
    /\ (idx + 1) * (col - 4) <= MaxCells
    /\ \E display_name \in NameCells, metric_cell \in MetricCells,
          cells \in [1..Len(dates) -> ValueCells] :
          LET st0 == [records |-> performance_records, player |-> current_player,
                      id |-> current_player_id, rd |-> row_data,
                      matched |-> matched_players, skipped |-> skipped_players]
              st1 == IF StartsBlock(display_name)
                     THEN NewBlock(st0, players, dates, display_name)
                     ELSE st0
              blk == BlockHistory(blocks, players, dates, display_name,
                                  metric_cell, cells)
          IN  /\ performance_records' = st1.records
              /\ current_player' = st1.player
              /\ current_player_id' = st1.id
              /\ matched_players' = st1.matched
              /\ skipped_players' = st1.skipped
              /\ row_data' = MetricRow(st1.rd, st1.id, dates, metric_cell, cells)
              /\ blocks' = IF StartsBlock(display_name) THEN Append(blocks, blk)
                           ELSE IF Len(blocks) > 0
                                THEN [blocks EXCEPT ![Len(blocks)] = blk]
                                ELSE blocks
              /\ rec_block' = rec_block \o Repeat(Len(blocks),
                                  Len(st1.records) - Len(performance_records))
    /\ idx' = idx + 1
    /\ UNCHANGED <<pc, SUPABASE_URL, SUPABASE_KEY, exit_status, excel_reads, gets,
                   posts, players_db, col, dates, players, i, inserted>>
    /\ UNCHANGED pureVars

\* leaving the row loop without saving the block in progress
LastPlayerNoFlush ==
    /\ pc = "rows"
    /\ pc' = "report"
    /\ UNCHANGED mainVars
    /\ UNCHANGED pureVars

\* the row loop is over: lines 152-172
LastPlayer ==
    /\ pc = "rows"
    /\ performance_records' =
          performance_records \o SavedRecords(current_player_id, row_data)
    /\ rec_block' = rec_block \o Repeat(Len(blocks),
                        Len(SavedRecords(current_player_id, row_data)))
    /\ pc' = "report"
    /\ UNCHANGED <<SUPABASE_URL, SUPABASE_KEY, exit_status, excel_reads, gets, posts,
                   players_db, col, dates, players, current_player,
                   current_player_id, row_data, skipped_players, matched_players,
                   idx, i, inserted, blocks>>
    /\ UNCHANGED pureVars

-----------------------------------------------------------------------------
(* Batched upsert, lines 174-190 *)

batch_size == 200

\* performance_records[lo:hi], 0-based and end-exclusive as in Python
SliceShort(records, lo, hi) ==
    SubSeq(records, lo + 1, IF hi - 1 < Len(records) THEN hi - 1 ELSE Len(records))

Slice(records, lo, hi) ==
    SubSeq(records, lo + 1, IF hi < Len(records) THEN hi ELSE Len(records))

\* the test of line 186
IsSuccessOnly200(status) == status = 200

IsSuccess(status) == status \in {200, 201}

\* lines 174-181
Report ==
    /\ pc = "report"
    /\ IF performance_records = <<>>
       THEN pc' = "done" /\ UNCHANGED <<i, inserted>>
       ELSE pc' = "batch" /\ i' = 0 /\ inserted' = 0
    /\ UNCHANGED <<SUPABASE_URL, SUPABASE_KEY, exit_status, excel_reads, gets, posts,
                   players_db, col, dates, players, performance_records,
                   current_player, current_player_id, row_data, skipped_players,
                   matched_players, idx, blocks, rec_block>>
    /\ UNCHANGED pureVars

\* one iteration of the loop of line 183; the call returns resp.status or,
\* on an HTTPError, e.code
UpsertBatch ==
    /\ pc = "batch"
    /\ i < Len(performance_records)
    /\ \E status \in Statuses :
          LET batch == Slice(performance_records, i, i + batch_size)
          IN  /\ posts' = Append(posts, [batch |-> batch, status |-> status])
              /\ inserted' = IF IsSuccess(status) THEN inserted + Len(batch)
                             ELSE inserted
    /\ i' = i + batch_size
    /\ UNCHANGED <<pc, SUPABASE_URL, SUPABASE_KEY, exit_status, excel_reads, gets,
                   players_db, col, dates, players, performance_records,
                   current_player, current_player_id, row_data, skipped_players,
                   matched_players, idx, blocks, rec_block>>
    /\ UNCHANGED pureVars

\* line 190
Finish ==
    /\ pc = "batch"
    /\ i >= Len(performance_records)
    /\ pc' = "done"
    /\ UNCHANGED mainVars
    /\ UNCHANGED pureVars

-----------------------------------------------------------------------------
(* The script *)

Init ==
    /\ pc = "config"
    /\ SUPABASE_URL \in EnvValues
    /\ SUPABASE_KEY \in EnvValues
    /\ exit_status = NoExit
    /\ excel_reads = 0
    /\ gets = 0
    /\ posts = <<>>
    /\ players_db \in Registries
    /\ col = 0
    /\ dates = <<>>
    /\ players = <<>>
    /\ performance_records = <<>>
    /\ current_player = NoneStr
    /\ current_player_id = NoId
    /\ row_data = <<>>
    /\ skipped_players = {}
    /\ matched_players = {}
    /\ idx = 0
    /\ i = 0
    /\ inserted = 0
    /\ blocks = <<>>
    /\ rec_block = <<>>
    /\ arg = NoneStr
    /\ res = NoneStr
    /\ res2 = NoneStr

Next ==
    \/ ConfigCheck
    \/ LoadExcel
    \/ HeaderCol
    \/ FetchPlayers
    \/ ProcessRow
    \/ LastPlayer
    \/ Report
    \/ UpsertBatch
    \/ Finish

Spec == Init /\ [][Next]_vars

-----------------------------------------------------------------------------
(* The batch loop alone, entered with a record list of any length *)

\* one record per player, as a sheet of n matched one-row blocks yields
RecordsOfLen(n) ==
    [k \in 1..n |->
        Record(k, <<"2", "0", "2", "4", "-", "0", "1", "-", "0", "2">>,
               [EmptyMetrics EXCEPT !.raw_score = 1000])]

InitBatch ==
    /\ pc = "report"
    /\ SUPABASE_URL = <<"k">>
    /\ SUPABASE_KEY = <<"k">>
    /\ exit_status = NoExit
    /\ excel_reads = 1
    /\ gets = 1
    /\ posts = <<>>
    /\ players_db = <<>>
    /\ col = 4
    /\ dates = <<>>
    /\ players = <<>>
    /\ performance_records \in {RecordsOfLen(n) : n \in 0..MaxRecords}
    /\ current_player = NoneStr
    /\ current_player_id = NoId
    /\ row_data = <<>>
    /\ skipped_players = {}
    /\ matched_players = {}
    /\ idx = 1
    /\ i = 0
    /\ inserted = 0
    /\ blocks = <<>>
    /\ rec_block = <<>>
    /\ arg = NoneStr
    /\ res = NoneStr
    /\ res2 = NoneStr

NextBatch == Report \/ UpsertBatch \/ Finish

SpecBatch == InitBatch /\ [][NextBatch]_vars

-----------------------------------------------------------------------------
(* normalize_name and parse_date alone, on every short string *)

NameAlphabet == {"A", "b", " "}
DateAlphabet == {"1", "/", "x"}

InitPure(inputs) ==
    /\ pc = "call"
    /\ arg \in inputs
    /\ res = NoneStr
    /\ res2 = NoneStr
    /\ SUPABASE_URL = <<"k">>
    /\ SUPABASE_KEY = <<"k">>
    /\ exit_status = NoExit
    /\ excel_reads = 0
    /\ gets = 0
    /\ posts = <<>>
    /\ players_db = <<>>
    /\ col = 0
    /\ dates = <<>>
    /\ players = <<>>
    /\ performance_records = <<>>
    /\ current_player = NoneStr
    /\ current_player_id = NoId
    /\ row_data = <<>>
    /\ skipped_players = {}
    /\ matched_players = {}
    /\ idx = 0
    /\ i = 0
    /\ inserted = 0
    /\ blocks = <<>>
    /\ rec_block = <<>>

InitName == InitPure(StringsUpTo(NameAlphabet, MaxNameLen) \cup {NoneStr})

CallNormalize ==
    /\ pc = "call"
    /\ res' = normalize_name(arg)
    /\ pc' = "again"
    /\ UNCHANGED <<arg, res2>>
    /\ UNCHANGED mainVars

CallNormalizeAgain ==
    /\ pc = "again"
    /\ res2' = normalize_name(res)
    /\ pc' = "returned"
    /\ UNCHANGED <<arg, res>>
    /\ UNCHANGED mainVars

NextName == CallNormalize \/ CallNormalizeAgain

SpecName == InitName /\ [][NextName]_vars

InitDate == InitPure(StringsUpTo(DateAlphabet, MaxDateLen) \cup {NoneStr})

CallParseDate ==
    /\ pc = "call"
    /\ res' = parse_date(arg)
    /\ pc' = "returned"
    /\ UNCHANGED <<arg, res2>>
    /\ UNCHANGED mainVars

NextDate == CallParseDate

SpecDate == InitDate /\ [][NextDate]_vars

-----------------------------------------------------------------------------
(* Properties *)

Parsed == pc \in {"report", "batch", "done"}

\* the metrics block b stored for date d
StoredOf(b, d) ==
    (CHOOSE e \in {blocks[b].stored[k] : k \in 1..Len(blocks[b].stored)} :
        e.date = d).metrics

NonZero(v) == v # NoValue /\ v # 0

AnyNonZero(m) == NonZero(m.raw_score) \/ NonZero(m.ranking) \/ NonZero(m.reward)

\* the records block b contributed for date d
RecordsOf(b, d) ==
    {k \in 1..Len(performance_records) :
        rec_block[k] = b /\ performance_records[k].match_date = d}

\* C1: in the final record list, a block whose name resolved to a player id
\* has a record for a date column exactly when one of the raw_score, ranking
\* and reward values it stored for that date is neither null nor zero.
C1_RecordIffTruthyMetric ==
    Parsed =>
        \A b \in 1..Len(blocks) : \A c \in 1..Len(dates) :
            blocks[b].id # NoId =>
                ((\E k \in RecordsOf(b, dates[c].date) :
                      performance_records[k].player_id = blocks[b].id)
                 <=> AnyNonZero(StoredOf(b, dates[c].date)))

\* a matched block that stored a zero-only date (no record) next to a date
\* with a non-zero ranking only (one record)
C1_Witness ==
    /\ pc = "done"
    /\ \E b \in 1..Len(blocks) : \E c1, c2 \in 1..Len(dates) :
          /\ blocks[b].id # NoId
          /\ StoredOf(b, dates[c1].date) = [EmptyMetrics EXCEPT !.ranking = 0]
          /\ StoredOf(b, dates[c2].date) = [EmptyMetrics EXCEPT !.ranking = 1000]
          /\ RecordsOf(b, dates[c1].date) = {}
          /\ RecordsOf(b, dates[c2].date) # {}

-----------------------------------------------------------------------------

\* whether the claim's rule (a) or (b) holds of a sheet name and a registry name
Qualifies(normalized, db_name) ==
    \/ IsSubstr(normalized, db_name)
    \/ IsSubstr(db_name, normalized)
    \/ /\ Tokens(normalized) \cap Tokens(db_name) # {}
       /\ Cardinality(Tokens(normalized)) <= 3

\* the id the claim gives a normalized name: candidates are the positions
\* of the map the scan may stop at
FirstMatch(d, normalized, candidates) ==
    IF \E k \in 1..Len(d) : d[k].name = normalized
    THEN d[CHOOSE k \in 1..Len(d) : d[k].name = normalized].id
    ELSE LET Q == {k \in candidates : Qualifies(normalized, d[k].name)}
         IN  IF Q = {} THEN NoId ELSE d[Min(Q)].id

NamedEntries(d) == {k \in 1..Len(d) : d[k].name # NoneStr}

NonEmptyEntries(d) == {k \in 1..Len(d) : d[k].name # NoneStr /\ d[k].name # <<>>}

MatchingAgrees(candidates) ==
    /\ \A b \in 1..Len(blocks) :
          /\ blocks[b].id =
                FirstMatch(players, normalize_name(blocks[b].name), candidates)
          /\ blocks[b].id = NoId =>
                blocks[b].name \in skipped_players \ matched_players
          /\ blocks[b].id # NoId =>
                blocks[b].name \in matched_players \ skipped_players
    /\ pc = "rows" /\ blocks # <<>> =>
          /\ current_player = blocks[Len(blocks)].name
          /\ current_player_id = blocks[Len(blocks)].id
    /\ skipped_players \cup matched_players =
          {blocks[b].name : b \in 1..Len(blocks)}

\* C2 as stated: every entry of the map is a candidate of the scan, so an
\* entry whose normalized name is empty, being a substring of every name,
\* wins when it comes first.
C2_AnyEntryFirstMatch == MatchingAgrees(NamedEntries(players))

\* C2: a sheet name resolves to the id of its exact entry in the map, else
\* to the id of the first entry in insertion order with a non-empty
\* normalized name that contains it, is contained in it, or shares a token
\* with it while the sheet name has at most 3 tokens; a name with no such
\* entry is unmatched and goes to the skipped set, never the matched set.
C2_NonEmptyEntryFirstMatch == MatchingAgrees(NonEmptyEntries(players))

\* a 4-token name that shares a token with an entry yet is skipped, after a
\* name matched to the first of two qualifying entries
C2_Witness ==
    /\ Len(blocks) = 2
    /\ Len(players) = 2
    /\ blocks[1].id = players[1].id
    /\ players[1].name # normalize_name(blocks[1].name)
    /\ Qualifies(normalize_name(blocks[1].name), players[2].name)
    /\ blocks[2].id = NoId
    /\ Cardinality(Tokens(normalize_name(blocks[2].name))) > 3
    /\ Tokens(normalize_name(blocks[2].name)) \cap Tokens(players[1].name) # {}
    /\ blocks[2].name \in skipped_players

-----------------------------------------------------------------------------

Digits(s) == Len(s) > 0 /\ \A k \in 1..Len(s) : IsDigit(s[k])

\* a valid M/D/YY or M/D/YYYY string
ValidDate(s) ==
    LET parts == SplitOn(s, "/")
    IN  /\ Len(parts) = 3
        /\ Digits(parts[1]) /\ Len(parts[1]) <= 2 /\ IntOf(parts[1]) \in 1..12
        /\ Digits(parts[2]) /\ Len(parts[2]) <= 2 /\ IntOf(parts[2]) \in 1..31
        /\ Digits(parts[3]) /\ Len(parts[3]) \in {2, 4}

\* a malformed string: not three segments, or a segment that is no number
Malformed(s) ==
    LET parts == SplitOn(s, "/")
    IN  Len(parts) # 3 \/ \E k \in 1..Len(parts) : ~Digits(parts[k])

Pad2(s) == IF Len(s) = 1 THEN <<"0">> \o s ELSE s

IsoOf(s) ==
    LET parts == SplitOn(s, "/")
    IN  (IF Len(parts[3]) = 2 THEN <<"2", "0">> ELSE <<>>) \o parts[3]
        \o <<"-">> \o Pad2(parts[1]) \o <<"-">> \o Pad2(parts[2])

\* C3: parse_date returns the zero-padded ISO date with a 4-digit year for
\* every valid M/D/YY or M/D/YYYY string, and null for every malformed
\* string (not three segments, or a non-numeric month, day or year).
C3_ParseDateIsoOrNull ==
    pc = "returned" /\ arg # NoneStr =>
        /\ ValidDate(arg) => res = IsoOf(arg)
        /\ Malformed(arg) => res = NoneStr

-----------------------------------------------------------------------------

RECURSIVE Concat(_, _)
\* the batches of the first n POSTs, one after the other
Concat(ps, n) ==
    IF n = 0 THEN <<>> ELSE Concat(ps, n - 1) \o ps[n].batch

CeilDiv(n, m) == (n + m - 1) \div m

\* C4: a record list of length n > 0 is submitted as ceil(n/200) POSTs of
\* consecutive chunks in list order: all but the last hold 200 records, the
\* last 1 to 200, and the chunks together are the list.
C4_ChunksPartitionRecords ==
    pc = "done" /\ performance_records # <<>> =>
        /\ Len(posts) = CeilDiv(Len(performance_records), 200)
        /\ \A k \in 1..(Len(posts) - 1) : Len(posts[k].batch) = 200
        /\ Len(posts[Len(posts)].batch) \in 1..200
        /\ Concat(posts, Len(posts)) = performance_records

\* 450 records sent as 200, 200, 50
C4_Witness ==
    /\ pc = "done"
    /\ Len(performance_records) = 450
    /\ Len(posts) = 3
    /\ Len(posts[1].batch) = 200
    /\ Len(posts[2].batch) = 200
    /\ Len(posts[3].batch) = 50

-----------------------------------------------------------------------------

RECURSIVE SumInserted(_, _)
\* total size of the batches among the first n POSTs answered 200 or 201
SumInserted(ps, n) ==
    IF n = 0 THEN 0
    ELSE SumInserted(ps, n - 1)
         + (IF ps[n].status \in {200, 201} THEN Len(ps[n].batch) ELSE 0)

\* C5: whatever the statuses, every chunk is posted once and in turn (none
\* retried, none skipped), the run does not abort, and the inserted count
\* is the total size of the batches answered 200 or 201.
C5_ErrorBatchSkippedRunContinues ==
    pc \in {"batch", "done"} =>
        /\ exit_status = NoExit
        /\ Len(posts) = CeilDiv(IF i < Len(performance_records) THEN i
                                ELSE Len(performance_records), 200)
        /\ \A k \in 1..Len(posts) :
              posts[k].batch =
                 SubSeq(performance_records, 200 * (k - 1) + 1,
                        IF 200 * k < Len(performance_records) THEN 200 * k
                        ELSE Len(performance_records))
        /\ inserted = SumInserted(posts, Len(posts))
        /\ pc = "done" => i >= Len(performance_records)

\* a failed first batch followed by two accepted ones
C5_Witness ==
    /\ pc = "done"
    /\ Len(posts) = 3
    /\ posts[1].status = 409
    /\ posts[2].status = 201
    /\ posts[3].status = 200
    /\ inserted = Len(posts[2].batch) + Len(posts[3].batch)
    /\ inserted < Len(performance_records)

-----------------------------------------------------------------------------

Unset(v) == v = NoneStr \/ v = <<>>

\* C6: when the base URL or the secret key is absent or empty, the script
\* goes from the configuration check straight to exit(1): the spreadsheet
\* is never read and no GET or POST is issued.
C6_MissingConfigAbortsBeforeIO ==
    Unset(SUPABASE_URL) \/ Unset(SUPABASE_KEY) =>
        /\ pc \in {"config", "aborted"}
        /\ pc = "aborted" => exit_status = 1
        /\ excel_reads = 0
        /\ gets = 0
        /\ posts = <<>>

\* aborted with the URL set and the key empty
C6_Witness ==
    /\ pc = "aborted"
    /\ exit_status = 1
    /\ SUPABASE_URL = <<"k">>
    /\ SUPABASE_KEY = <<>>

-----------------------------------------------------------------------------

\* C7: no two records of the list have the same player_id and match_date.
C7_OneRecordPerPlayerDate ==
    \A k, m \in 1..Len(performance_records) :
        k # m =>
            ~(/\ performance_records[k].player_id = performance_records[m].player_id
              /\ performance_records[k].match_date = performance_records[m].match_date)

-----------------------------------------------------------------------------

IsSpaces(s) == \A k \in 1..Len(s) : IsSpace(s[k])

\* r is s lowercased without its leading and trailing whitespace
IsTrimmedLower(r, s) ==
    /\ \A k \in 1..Len(r) : ~IsUpper(r[k])
    /\ r # <<>> => ~IsSpace(r[1]) /\ ~IsSpace(r[Len(r)])
    /\ \E a \in 0..Len(s) :
          /\ a + Len(r) <= Len(s)
          /\ IsSpaces(SubSeq(s, 1, a))
          /\ IsSpaces(SubSeq(s, a + Len(r) + 1, Len(s)))
          /\ \A k \in 1..Len(r) : r[k] = LowerChar(s[a + k])

\* C8: normalize_name(normalize_name(s)) = normalize_name(s), the result
\* being s lowercased with leading and trailing whitespace removed, and
\* null for a null s.
C8_NormalizeIdempotent ==
    /\ pc \in {"again", "returned"} =>
          IF arg = NoneStr THEN res = NoneStr ELSE IsTrimmedLower(res, arg)
    /\ pc = "returned" => res2 = res

\* a name with an uppercase letter between two leading and one trailing blank
C8_Witness ==
    /\ pc = "returned"
    /\ arg = <<" ", " ", "A", " ">>
    /\ res = <<"a">>
    /\ res2 = <<"a">>

-----------------------------------------------------------------------------

\* the blocks whose flush is due: all but the current one while rows are
\* read, all once the row loop is over
Flushed ==
    IF pc = "rows" THEN 1..(Len(blocks) - 1)
    ELSE IF Parsed THEN 1..Len(blocks)
    ELSE {}

\* C9: each block is flushed exactly once, when the next row with a
\* non-empty first cell is reached or, for the last block, after the row
\* loop: the list holds, in block order, exactly one record per date with a
\* non-zero metric of every matched block already left, none of the
\* current block, and the accumulator holds the current block's values only.
C9_BlockFlushedOnce ==
    pc \in {"rows", "report", "batch", "done"} =>
        /\ Len(rec_block) = Len(performance_records)
        /\ \A k \in 1..Len(rec_block) : rec_block[k] \in Flushed
        /\ \A k, m \in 1..Len(rec_block) : k < m => rec_block[k] <= rec_block[m]
        /\ \A b \in Flushed : \A c \in 1..Len(dates) :
              Cardinality(RecordsOf(b, dates[c].date)) =
                 IF blocks[b].id # NoId /\ AnyNonZero(StoredOf(b, dates[c].date))
                 THEN 1 ELSE 0
        /\ pc = "rows" /\ blocks # <<>> => row_data = blocks[Len(blocks)].stored

\* two matched blocks with data: the first flushed by the second name row,
\* the second after the loop
C9_Witness ==
    /\ pc = "report"
    /\ Len(blocks) = 2
    /\ rec_block = <<1, 2>>
    /\ performance_records[1].player_id = blocks[1].id
    /\ performance_records[2].player_id = blocks[2].id
    /\ blocks[1].id # blocks[2].id

-----------------------------------------------------------------------------

\* C10: every record carries the id resolved for the block whose rows
\* filled it and that block's own values; rows of an unmatched block, or
\* before the first block, store nothing and yield no record.
C10_MetricsStayInTheirBlock ==
    pc \in {"rows", "report", "batch", "done"} =>
        /\ \A k \in 1..Len(performance_records) :
              LET r == performance_records[k]
                  b == rec_block[k]
              IN  /\ b \in 1..Len(blocks)
                  /\ blocks[b].id # NoId
                  /\ r.player_id = blocks[b].id
                  /\ \E c \in 1..Len(dates) :
                        /\ dates[c].date = r.match_date
                        /\ StoredOf(b, r.match_date) =
                              [raw_score |-> r.raw_score, ranking |-> r.ranking,
                               reward |-> r.reward]
        /\ current_player_id = NoId =>
              \A k \in 1..Len(row_data) : row_data[k].metrics = EmptyMetrics

\* a matched block with data followed by an unmatched block holding numbers:
\* the only record is the first block's
C10_Witness ==
    /\ pc = "done"
    /\ Len(blocks) = 2
    /\ blocks[1].id # NoId
    /\ blocks[2].id = NoId
    /\ blocks[2].numeric
    /\ Len(performance_records) = 1
    /\ rec_block = <<1>>

====
